---- MODULE Spec2Model ----
(***************************************************************************)
(* REAPER plugin manager (src/reaper/plugin_manager.py).                   *)
(*                                                                         *)
(* PluginManager wraps a pluggy.PluginManager (self.pm) and keeps its own  *)
(* list self._registered_plugins of (plugin, name) pairs.  The state of    *)
(* the wrapped pluggy manager that the facade can reach is modelled by     *)
(* name2plugin (pluggy's name -> plugin table) and hookimpls (pluggy's     *)
(* per-hook list of implementations, kept in registration order and        *)
(* called last-registered-first).                                          *)
(*                                                                         *)
(* Plugin objects are the integers 1..NumPlugins; an integer is the        *)
(* object's identity.  No plugin class of the repository defines __eq__,   *)
(* so Python's == / != on plugin objects is object identity (PluginEq).    *)
(* Every marked method carries the plain @hookimpl marker, as every        *)
(* plugin of the repository does (no tryfirst / trylast / wrapper), and    *)
(* takes the arguments its hook specification names, so that pluggy's      *)
(* register accepts it.                                                    *)
(***************************************************************************)
EXTENDS Integers, Sequences, FiniteSets, TLC

\* ---------------------------------------------------------------- bounds
NumPlugins == 3        \* plugin objects that exist
MaxSignals == 2        \* longest list one detect hook implementation returns
MaxQuarters == 5       \* the scores tried reach from -MaxQuarters/4 to MaxQuarters/4
MaxBatch == 3          \* longest list of records given to Signal.create_batch
MaxKeywords == 2       \* longest keyword list given to KeywordScorerPlugin
MaxValues == 3         \* most values in the raw_data of a signal to score
MaxClock == 3          \* last reading of the clock of the monitor example
MaxCalls == 5          \* most register / unregister calls that are counted

\* ------------------------------------------------------------ the inputs
Plugins == 1..NumPlugins

NoName == "<None>"                     \* name=None, the default of register_plugin
Names == {NoName, "n1"}

Sources == {"camera-1"}                \* source: str of the detect_* methods
SignalArgs == {"signal-1"}             \* signal of score_signal
ScoredArgs == {"scored-1"}             \* scored_signal of execute_action

\* ---------------------------------------------------- the hook contract
DetectHooks == {"reaper_sight_detect", "reaper_hearing_detect",
                "reaper_touch_detect", "reaper_taste_detect",
                "reaper_smell_detect"}

Hooks == DetectHooks \cup {"reaper_score_signal", "reaper_action_execute"}

\* ------------------------------------------------------- plugin classes
\* Objects 1, 2, 5, 6, ... are distinct instances of one class that marks
\* a detect hook, the scoring hook and the action hook.  Objects 3, 7, ...
\* are instances of a class that marks the other four detect hooks and,
\* like FaultyPlugin of the tests, has methods that are named like hooks
\* and carry no marker.  Objects 4, 8, ... are instances of ScoringPlugin
\* (src/pipeline/scoring.py).
ClassOf(p) ==
    CASE p % 4 = 3 -> "HalfMarkedPlugin"
      [] p % 4 = 0 -> "ScoringPlugin"
      [] OTHER     -> "PipelinePlugin"

\* the methods of the class that carry the @hookimpl marker
HookimplMarked(cls) ==
    CASE cls = "PipelinePlugin"   -> {"reaper_sight_detect", "reaper_score_signal",
                                      "reaper_action_execute"}
      [] cls = "HalfMarkedPlugin" -> {"reaper_hearing_detect", "reaper_touch_detect",
                                      "reaper_taste_detect", "reaper_smell_detect"}
      [] cls = "ScoringPlugin"    -> {"reaper_score_signal"}
      [] OTHER                    -> {}

\* the methods of the class that are named like a hook and are not marked
UnmarkedMethods(cls) ==
    CASE cls = "HalfMarkedPlugin" -> {"reaper_sight_detect", "reaper_score_signal",
                                      "reaper_action_execute"}
      [] OTHER                    -> {}

\* ------------------------------------------------------------- helpers
RECURSIVE Reverse(_)
Reverse(s) == IF s = <<>> THEN <<>> ELSE Append(Reverse(Tail(s)), Head(s))

RECURSIVE Chain(_)
\* itertools.chain.from_iterable over a sequence of sequences
Chain(ss) == IF ss = <<>> THEN <<>> ELSE Head(ss) \o Chain(Tail(ss))

Range(s) == {s[i] : i \in DOMAIN s}

\* ------------------------------------------------------------ the state
VARIABLES
    registered_plugins,  \* self._registered_plugins: list of (plugin, name)
    name2plugin,         \* self.pm: pluggy's table of registered names
    hookimpls,           \* self.pm.hook.<hook>: implementations, oldest first
    last,                \* the latest call of a PluginManager method and its outcome
    snapshot,            \* the value of list_plugins() that a caller holds
    built                \* the latest call of a model constructor or of the scorer

vars == <<registered_plugins, name2plugin, hookimpls, last, snapshot, built>>

\* (mutant) two plugin objects compare equal when they are of one class
PluginEqByClass(p, q) == ClassOf(p) = ClassOf(q)

\* Python's == on two plugin objects (object.__eq__: identity)
PluginEq(p, q) == p = q

\* ------------------------------------------------------ pluggy: register
\* pluggy registers a plugin under `name or get_canonical_name(plugin)`;
\* the canonical name of an instance is str(id(plugin)).
PluginName(plugin, name) ==
    IF name = NoName THEN [label |-> NoName, id |-> plugin]
                     ELSE [label |-> name, id |-> 0]

\* (mutant) only the name is checked, the plugin object is not
RegisterRaisesNameOnly(plugin, name) ==
    PluginName(plugin, name) \in DOMAIN name2plugin

\* (mutant) only the plugin object is checked, the name is not
RegisterRaisesPluginOnly(plugin, name) ==
    \E n \in DOMAIN name2plugin : PluginEq(name2plugin[n], plugin)

\* ValueError of pluggy's register: the name is taken, or the plugin is
\* already a value of the name table
RegisterRaises(plugin, name) ==
    \/ PluginName(plugin, name) \in DOMAIN name2plugin
    \/ \E n \in DOMAIN name2plugin : PluginEq(name2plugin[n], plugin)

\* (mutant) duck typing: a method named like the hook is an implementation
IsHookImplByName(plugin, h) ==
    h \in HookimplMarked(ClassOf(plugin)) \cup UnmarkedMethods(ClassOf(plugin))

\* (mutant) a registered plugin is taken to implement every hook
IsHookImplAny(plugin, h) == TRUE

\* pluggy's register walks dir(plugin) and keeps the methods that carry the
\* hookimpl marker of project "reaper"
IsHookImpl(plugin, h) == h \in HookimplMarked(ClassOf(plugin))

\* HookCaller._add_hookimpl for a plain hookimpl: appended after the others
AddHookimpl(impls, plugin) == Append(impls, plugin)

\* (mutant) the implementations of an unregistered plugin stay in place
RemovePluginKeeps(impls, plugin) == impls

\* HookCaller._remove_plugin
RemovePlugin(impls, plugin) == SelectSeq(impls, LAMBDA q : ~PluginEq(q, plugin))

\* (mutant) the count is kept apart from the list and counts named plugins
plugin_count_named ==
    Cardinality({i \in DOMAIN registered_plugins : registered_plugins[i].name # NoName})

\* (mutant) unregister never asserts
IsRegisteredAlways(plugin) == TRUE

\* pluggy's get_name(plugin): is the plugin a value of the name table
IsRegistered(plugin) == \E n \in DOMAIN name2plugin : PluginEq(name2plugin[n], plugin)

\* ------------------------------------------------------- the query API
list_plugins == registered_plugins

plugin_count == Len(registered_plugins)

\* A Python sequence object in the hands of a caller: its type (a tuple
\* has no operation that changes it, a list has), whether it is the very
\* list object self._registered_plugins, and its items.
NoSnapshot == [kind |-> "none", alias |-> FALSE, items |-> <<>>]

\* (mutant) list_plugins() hands out the internal list itself
ListPluginsReturnsTheList ==
    [kind |-> "list", alias |-> TRUE, items |-> registered_plugins]

\* tuple(self._registered_plugins): a new tuple of the same pairs
ListPluginsReturns ==
    [kind |-> "tuple", alias |-> FALSE, items |-> registered_plugins]

\* self._registered_plugins.append(...) changes the list object in place:
\* whoever holds that object sees the new item
AfterAppend(held, entry) ==
    IF held.alias THEN [held EXCEPT !.items = Append(held.items, entry)] ELSE held

\* self._registered_plugins = [...] binds the attribute to a new list: the
\* old list object stays as it is and is no longer the registry
AfterRebind(held) == [held EXCEPT !.alias = FALSE]

\* ---------------------------------------------------------------- Init
NothingBuilt == [op |-> "init"]

NoCall == [op |-> "init", plugin |-> 0, name |-> NoName, hook |-> "", arg |-> "",
           raised |-> FALSE, error |-> "", invoked |-> <<>>, returns |-> <<>>,
           result |-> <<>>, before |-> <<>>, held |-> NoSnapshot]

Init ==
    /\ registered_plugins = <<>>
    /\ name2plugin = <<>>
    /\ hookimpls = [h \in Hooks |-> <<>>]
    /\ last = NoCall
    /\ snapshot = NoSnapshot
    /\ built = NothingBuilt

\* ------------------------------------------------------ register_plugin
\* what the call does to the manager and to what callers hold
RegisterCall(plugin, name) ==
    IF RegisterRaises(plugin, name)
    THEN /\ UNCHANGED <<registered_plugins, name2plugin, hookimpls, snapshot>>
         /\ last' = [NoCall EXCEPT !.op = "register_plugin", !.plugin = plugin,
                                   !.name = name, !.raised = TRUE,
                                   !.error = "ValueError",
                                   !.before = registered_plugins,
                                   !.held = snapshot]
    ELSE /\ name2plugin' =
                [n \in DOMAIN name2plugin \cup {PluginName(plugin, name)} |->
                    IF n = PluginName(plugin, name) THEN plugin ELSE name2plugin[n]]
         /\ hookimpls' = [h \in Hooks |->
                    IF IsHookImpl(plugin, h) THEN AddHookimpl(hookimpls[h], plugin)
                                             ELSE hookimpls[h]]
         /\ registered_plugins' =
                Append(registered_plugins, [plugin |-> plugin, name |-> name])
         /\ snapshot' = AfterAppend(snapshot, [plugin |-> plugin, name |-> name])
         /\ last' = [NoCall EXCEPT !.op = "register_plugin", !.plugin = plugin,
                                   !.name = name, !.before = registered_plugins,
                                   !.held = snapshot]

register_plugin(plugin, name) == RegisterCall(plugin, name) /\ UNCHANGED built

\* ---------------------------------------------------- unregister_plugin
\* (mutant) the name of an unregistered plugin stays in the name table
ForgetPluginKeeps(table, plugin) == table

\* pluggy's unregister: del self._name2plugin[name]
ForgetPlugin(table, plugin) ==
    [n \in {m \in DOMAIN table : ~PluginEq(table[m], plugin)} |-> table[n]]

\* (mutant) the entries are compared by their names
WithoutName(entries, plugin) ==
    LET names == {e.name : e \in {f \in Range(entries) : PluginEq(f.plugin, plugin)}}
    IN  SelectSeq(entries, LAMBDA e : e.name \notin names)

\* (mutant) the newest entry is dropped, whichever plugin is unregistered
WithoutLast(entries, plugin) == SubSeq(entries, 1, Len(entries) - 1)

\* [(p, n) for p, n in self._registered_plugins if p != plugin]
WithoutPlugin(entries, plugin) ==
    SelectSeq(entries, LAMBDA e : ~PluginEq(e.plugin, plugin))

UnregisterCall(plugin) ==
    IF ~IsRegistered(plugin)
    THEN /\ UNCHANGED <<registered_plugins, name2plugin, hookimpls, snapshot>>
         /\ last' = [NoCall EXCEPT !.op = "unregister_plugin", !.plugin = plugin,
                                   !.raised = TRUE, !.error = "AssertionError",
                                   !.before = registered_plugins,
                                   !.held = snapshot]
    ELSE /\ hookimpls' = [h \in Hooks |-> RemovePlugin(hookimpls[h], plugin)]
         /\ name2plugin' = ForgetPlugin(name2plugin, plugin)
         /\ registered_plugins' = WithoutPlugin(registered_plugins, plugin)
         /\ snapshot' = AfterRebind(snapshot)
         /\ last' = [NoCall EXCEPT !.op = "unregister_plugin", !.plugin = plugin,
                                   !.before = registered_plugins,
                                   !.held = snapshot]

unregister_plugin(plugin) == UnregisterCall(plugin) /\ UNCHANGED built

\* ------------------------------------------------- the plugins' methods
\* What one call of a plugin's hook method does: it raises, returns None,
\* or returns a value: a list of 0..MaxSignals Signals for a detect hook,
\* one ScoredSignal / ActionResult for the scoring and the action hook.
PluginReturns(h) ==
    {[kind |-> "raise", n |-> 0], [kind |-> "None", n |-> 0]}
    \cup {[kind |-> "value", n |-> n] :
            n \in IF h \in DetectHooks THEN 0..MaxSignals ELSE {1}}

\* the k-th object plugin p builds in a call of its hook h with argument arg
Made(p, h, arg, k) == [by |-> p, hook |-> h, arg |-> arg, k |-> k]

ReturnValue(p, h, arg, b) ==
    [kind |-> b.kind, by |-> p, items |-> [k \in 1..b.n |-> Made(p, h, arg, k)]]

\* ----------------------------------------------------- pluggy: hook call
\* (mutant) the implementations are called oldest first
CallOrderFIFO(impls) == impls

\* pluggy's _multicall walks reversed(hook_impls): the implementation
\* registered last is called first
CallOrder(impls) == Reverse(impls)

\* self.pm.hook.<h>(**kwargs): the implementations are called in CallOrder;
\* the first exception ends the call and propagates; a result that is not
\* None is appended to the list of results
Multicall(h, arg, beh) ==
    LET order == CallOrder(hookimpls[h])
        rets == [i \in 1..Len(order) |-> ReturnValue(order[i], h, arg, beh[order[i]])]
        raisers == {i \in 1..Len(order) : rets[i].kind = "raise"}
        stop == IF raisers = {} THEN Len(order)
                ELSE CHOOSE i \in raisers : \A j \in raisers : i <= j
        made == SubSeq(rets, 1, stop)
    IN  [raised  |-> raisers # {},
         invoked |-> SubSeq(order, 1, stop),
         returns |-> made,
         results |-> SelectSeq(made, LAMBDA r : r.kind # "None" /\ r.kind # "raise")]

\* (mutant) only the first plugin's list is returned
DetectAggregateFirst(results) ==
    IF results = <<>> THEN <<>> ELSE results[1].items

\* list(chain.from_iterable(result or [] for result in results))
DetectAggregate(results) ==
    Chain([i \in 1..Len(results) |-> results[i].items])

\* (mutant) only the first result is kept
NotNoneAggregateFirst(results) ==
    LET kept == SelectSeq(results, LAMBDA r : r.kind # "None")
    IN  [i \in 1..(IF kept = <<>> THEN 0 ELSE 1) |-> kept[i].items[1]]

\* [r for r in results if r is not None]
NotNoneAggregate(results) ==
    LET kept == SelectSeq(results, LAMBDA r : r.kind # "None")
    IN  [i \in 1..Len(kept) |-> kept[i].items[1]]

\* (mutant) the method catches the exception and returns what it has
LeavesMethodNever(m) == FALSE

\* the methods have no try / except around the hook call: an exception
\* raised under self.pm.hook.<h>(...) leaves the method as it is
LeavesMethod(m) == m.raised

\* (mutant) a plugin that raises is dropped from the registry
HookCallDropsRaiser(op, h, arg, beh) ==
    LET m == Multicall(h, arg, beh)
        raiser == IF m.raised THEN m.invoked[Len(m.invoked)] ELSE 0
    IN  /\ last' = [NoCall EXCEPT
                        !.op = op, !.hook = h, !.arg = arg,
                        !.raised = m.raised,
                        !.error = IF m.raised THEN "PluginError" ELSE "",
                        !.invoked = m.invoked,
                        !.returns = m.returns,
                        !.result = IF m.raised THEN <<>>
                                   ELSE IF h \in DetectHooks
                                        THEN DetectAggregate(m.results)
                                        ELSE NotNoneAggregate(m.results),
                        !.before = registered_plugins,
                        !.held = snapshot]
        /\ registered_plugins' = WithoutPlugin(registered_plugins, raiser)
        /\ hookimpls' = [g \in Hooks |-> RemovePlugin(hookimpls[g], raiser)]
        /\ name2plugin' =
               [n \in {k \in DOMAIN name2plugin : ~PluginEq(name2plugin[k], raiser)} |->
                   name2plugin[n]]
        /\ UNCHANGED <<snapshot, built>>

\* a detect_<sense>, score_signal or execute_action call; an exception of a
\* plugin leaves through the method, which then returns nothing
HookCall(op, h, arg, beh) ==
    LET m == Multicall(h, arg, beh)
    IN  /\ last' = [NoCall EXCEPT
                        !.op = op, !.hook = h, !.arg = arg,
                        !.raised = LeavesMethod(m),
                        !.error = IF LeavesMethod(m) THEN "PluginError" ELSE "",
                        !.invoked = m.invoked,
                        !.returns = m.returns,
                        !.result = IF LeavesMethod(m) THEN <<>>
                                   ELSE IF h \in DetectHooks
                                        THEN DetectAggregate(m.results)
                                        ELSE NotNoneAggregate(m.results),
                        !.before = registered_plugins,
                        !.held = snapshot]
        /\ UNCHANGED <<registered_plugins, name2plugin, hookimpls, snapshot, built>>

\* the behaviours of the implementations of hook h in one call
Behaviours(h) == [Range(hookimpls[h]) -> PluginReturns(h)]

detect_sight(source) ==
    \E beh \in Behaviours("reaper_sight_detect") :
        HookCall("detect_sight", "reaper_sight_detect", source, beh)

detect_hearing(source) ==
    \E beh \in Behaviours("reaper_hearing_detect") :
        HookCall("detect_hearing", "reaper_hearing_detect", source, beh)

detect_touch(source) ==
    \E beh \in Behaviours("reaper_touch_detect") :
        HookCall("detect_touch", "reaper_touch_detect", source, beh)

detect_taste(source) ==
    \E beh \in Behaviours("reaper_taste_detect") :
        HookCall("detect_taste", "reaper_taste_detect", source, beh)

detect_smell(source) ==
    \E beh \in Behaviours("reaper_smell_detect") :
        HookCall("detect_smell", "reaper_smell_detect", source, beh)

score_signal(signal) ==
    \E beh \in Behaviours("reaper_score_signal") :
        HookCall("score_signal", "reaper_score_signal", signal, beh)

execute_action(scored_signal) ==
    \E beh \in Behaviours("reaper_action_execute") :
        HookCall("execute_action", "reaper_action_execute", scored_signal, beh)

Next ==
    \/ \E p \in Plugins, n \in Names : register_plugin(p, n)
    \/ \E p \in Plugins : unregister_plugin(p)
    \/ \E source \in Sources : detect_sight(source)
    \/ \E source \in Sources : detect_hearing(source)
    \/ \E source \in Sources : detect_touch(source)
    \/ \E source \in Sources : detect_taste(source)
    \/ \E source \in Sources : detect_smell(source)
    \/ \E signal \in SignalArgs : score_signal(signal)
    \/ \E scored_signal \in ScoredArgs : execute_action(scored_signal)

Spec == Init /\ [][Next]_vars

\* ------------------------------------------- a caller of list_plugins()
\* plugins = pm.list_plugins()
call_list_plugins ==
    /\ snapshot' = ListPluginsReturns
    /\ last' = [NoCall EXCEPT !.op = "list_plugins", !.before = registered_plugins,
                              !.held = snapshot]
    /\ UNCHANGED <<registered_plugins, name2plugin, hookimpls, built>>

\* what the caller's statement does to the object it holds and, when that
\* object is the registry's list, to the registry; a tuple has no
\* __setitem__ (TypeError) and no append (AttributeError)
CallerChanges(op, error, items) ==
    IF snapshot.kind = "tuple"
    THEN /\ last' = [NoCall EXCEPT !.op = op, !.raised = TRUE, !.error = error,
                                   !.before = registered_plugins,
                                   !.held = snapshot]
         /\ UNCHANGED <<registered_plugins, name2plugin, hookimpls, snapshot, built>>
    ELSE /\ last' = [NoCall EXCEPT !.op = op, !.before = registered_plugins,
                                   !.held = snapshot]
         /\ snapshot' = [snapshot EXCEPT !.items = items]
         /\ registered_plugins' = IF snapshot.alias THEN items ELSE registered_plugins
         /\ UNCHANGED <<name2plugin, hookimpls, built>>

NoneEntry == [plugin |-> 0, name |-> NoName]

\* plugins[i] = None
snapshot_setitem(i) ==
    /\ snapshot.kind # "none"
    /\ i \in DOMAIN snapshot.items
    /\ CallerChanges("snapshot_setitem", "TypeError",
                     [snapshot.items EXCEPT ![i] = NoneEntry])

\* plugins.append(None)
snapshot_append ==
    /\ snapshot.kind # "none"
    /\ CallerChanges("snapshot_append", "AttributeError",
                     Append(snapshot.items, NoneEntry))

\* the manager with a caller that keeps what list_plugins() returned;
\* the plugins are registered without a name
NextSnapshot ==
    \/ \E p \in Plugins : register_plugin(p, NoName)
    \/ \E p \in Plugins : unregister_plugin(p)
    \/ call_list_plugins
    \/ \E i \in 1..NumPlugins : snapshot_setitem(i)
    \/ snapshot_append

SpecSnapshot == Init /\ [][NextSnapshot]_vars

\* ------------------------------ a caller that counts its successful calls
\* the manager, how many register_plugin and unregister_plugin calls have
\* returned without an exception, and which plugins have been unregistered
InitCount ==
    /\ registered_plugins = <<>>
    /\ name2plugin = <<>>
    /\ hookimpls = [h \in Hooks |-> <<>>]
    /\ last = NoCall
    /\ snapshot = NoSnapshot
    /\ built = [op |-> "count", calls |-> 0, registered |-> 0, unregistered |-> 0,
                gone |-> {}]

counted_register_plugin(plugin, name) ==
    /\ built.op = "count" /\ built.calls < MaxCalls
    /\ RegisterCall(plugin, name)
    /\ built' = [built EXCEPT !.calls = @ + 1,
                              !.registered = IF last'.raised THEN @ ELSE @ + 1]

counted_unregister_plugin(plugin) ==
    /\ built.op = "count" /\ built.calls < MaxCalls
    /\ UnregisterCall(plugin)
    /\ built' = [built EXCEPT !.calls = @ + 1,
                              !.unregistered = IF last'.raised THEN @ ELSE @ + 1,
                              !.gone = IF last'.raised THEN @ ELSE @ \cup {plugin}]

NextCount ==
    \/ \E p \in Plugins, n \in Names : counted_register_plugin(p, n)
    \/ \E p \in Plugins : counted_unregister_plugin(p)

SpecCount == InitCount /\ [][NextCount]_vars

\* =================================================================
\* The models (src/reaper/models.py)
\* =================================================================
\* ---------------------------------------------------------------- floats
\* A Python float is an IEEE 754 double.  A double of the model is kept
\* exactly: a sign and a magnitude hi * 2^28 + lo, counted in units of
\* 2^-56.  Every double between 2^-4 and 4 is a whole number of such units.
Base == 2^28

Float(neg, hi, lo) == [neg |-> neg, hi |-> hi, lo |-> lo]

\* the float literals of the source, float.hex() in the comment
Zero == Float(FALSE, 0, 0)                               \* 0.0
One == Float(FALSE, Base, 0)                             \* 1.0  0x1.0p+0
Infinity == Float(FALSE, 2147483647, 0)                  \* float("inf")

IsZero(a) == a.hi = 0 /\ a.lo = 0

MagLt(a, b) == a.hi < b.hi \/ (a.hi = b.hi /\ a.lo < b.lo)

\* a < b, a <= b on doubles (-0.0 equals 0.0)
FLt(a, b) ==
    CASE IsZero(a) /\ IsZero(b) -> FALSE
      [] a.neg /\ ~b.neg        -> TRUE
      [] ~a.neg /\ b.neg        -> FALSE
      [] ~a.neg /\ ~b.neg       -> MagLt(a, b)
      [] OTHER                  -> MagLt(b, a)

FLe(a, b) == ~FLt(b, a)

\* the number of binary digits of n
BitLen(n) == CHOOSE k \in 0..30 : n < 2^k /\ (k = 0 \/ n >= 2^(k - 1))

\* round to nearest, ties to even, to the 53 significant bits of a double
RoundToDouble(hi, lo) ==
    LET d == BitLen(hi) + 28 - 53
    IN  IF hi = 0 \/ d <= 0 THEN Float(FALSE, hi, lo)
        ELSE LET q == 2^d
                 r == lo % q
                 odd == (lo \div q) % 2 = 1
                 up == 2 * r > q \/ (2 * r = q /\ odd)
                 lo2 == IF up THEN lo - r + q ELSE lo - r
             IN  Float(FALSE, hi + lo2 \div Base, lo2 % Base)

\* a + b of two doubles that are not negative
FAdd(a, b) ==
    LET lo == a.lo + b.lo
    IN  RoundToDouble(a.hi + b.hi + lo \div Base, lo % Base)

\* n * a of an int 0 <= n < 8 and a double that is not negative
FMulInt(n, a) ==
    LET lo == n * a.lo
    IN  RoundToDouble(n * a.hi + lo \div Base, lo % Base)

\* ------------------------------------------------------- Python values
\* a keyword argument that is not passed / that is passed
Missing == [given |-> FALSE]

Given(v) == [given |-> TRUE, v |-> v]

None == [kind |-> "None", v |-> ""]

Str(v) == [kind |-> "str", v |-> v]

\* a dict: its (key, value) pairs in insertion order
Dict(v) == [kind |-> "dict", v |-> v]

List(v) == [kind |-> "list", v |-> v]

PyInt(v) == [kind |-> "int", v |-> v]

Pair(k, v) == [key |-> k, value |-> v]

Datetime(t) == [kind |-> "datetime", v |-> t]

\* pydantic's ValidationError leaves the constructor / a value is returned
ValidationError == [raised |-> TRUE, error |-> "ValidationError"]

Returned(v) == [raised |-> FALSE, error |-> "", value |-> v]

\* --------------------------------------------------------------- Signal
SenseType == {"sight", "hearing", "touch", "taste", "smell", "action"}

\* (mutant) a Signal without raw_data / metadata holds None there
DefaultDictNone == None

\* default_factory=dict
DefaultDict == Dict(<<>>)

\* Signal(**kwargs); now is what datetime.now(timezone.utc) returns when the
\* default_factory of timestamp is called
Signal(sense_type, source, timestamp, raw_data, metadata, now) ==
    IF \/ ~sense_type.given
       \/ sense_type.given /\ ~(/\ sense_type.v.kind \in {"SenseType", "str"}
                                /\ sense_type.v.v \in SenseType)
       \/ ~source.given
       \/ source.given /\ source.v.kind # "str"
       \/ timestamp.given /\ timestamp.v.kind # "datetime"
       \/ raw_data.given /\ raw_data.v.kind # "dict"
       \/ metadata.given /\ metadata.v.kind # "dict"
    THEN ValidationError
    ELSE Returned([type |-> "Signal",
                   sense_type |-> sense_type.v.v,
                   source |-> source.v.v,
                   timestamp |-> IF timestamp.given THEN timestamp.v ELSE Datetime(now),
                   raw_data |-> IF raw_data.given THEN raw_data.v ELSE DefaultDict,
                   metadata |-> IF metadata.given THEN metadata.v ELSE DefaultDict])

\* -------------------------------------------------- Signal.create_batch
\* (mutant) every record gets a clock reading of its own
BatchTimestampPerRecord(shared_timestamp, clock, i) == Datetime(clock[i])

\* ts = shared_timestamp or datetime.now(timezone.utc): one value, computed
\* before the records are walked; a datetime is never falsy
BatchTimestamp(shared_timestamp, clock, i) ==
    IF shared_timestamp.given /\ shared_timestamp.v.kind = "datetime"
    THEN shared_timestamp.v
    ELSE Datetime(clock[1])

\* how often datetime.now() is called
BatchClockReads(shared_timestamp) ==
    IF shared_timestamp.given /\ shared_timestamp.v.kind = "datetime" THEN 0 ELSE 1

\* cls(**data, timestamp=ts): a record with a "timestamp" key of its own
\* gives the keyword twice (TypeError)
BatchSignal(data, ts) ==
    IF data.timestamp.given
    THEN [raised |-> TRUE, error |-> "TypeError"]
    ELSE Signal(data.sense_type, data.source, Given(ts), data.raw_data,
                data.metadata, 0)

\* Signal.create_batch(signals_data, shared_timestamp); clock is what the
\* successive calls of datetime.now() return.  The first record that cannot
\* be built ends the call with its exception.
create_batch(signals_data, shared_timestamp, clock) ==
    LET outs == [i \in DOMAIN signals_data |->
                    BatchSignal(signals_data[i],
                                BatchTimestamp(shared_timestamp, clock, i))]
        bad == {i \in DOMAIN outs : outs[i].raised}
    IN  IF bad = {}
        THEN [raised |-> FALSE, error |-> "",
              value |-> [i \in DOMAIN outs |-> outs[i].value],
              reads |-> BatchClockReads(shared_timestamp)]
        ELSE [raised |-> TRUE,
              error |-> outs[CHOOSE i \in bad : \A j \in bad : i <= j].error,
              reads |-> BatchClockReads(shared_timestamp)]

\* --------------------------------------------------------- ScoredSignal
\* (mutant) a score out of range is moved to the nearest bound
Clamped(score) ==
    IF FLt(score, Zero) THEN Zero ELSE IF FLt(One, score) THEN One ELSE score

ScoredSignalClamps(signal, score, analysis, tags) ==
    IF ~score.given \/ signal.type # "Signal"
    THEN ValidationError
    ELSE Returned([type |-> "ScoredSignal", signal |-> signal,
                   score |-> Clamped(score.v),
                   analysis |-> IF analysis.given THEN analysis.v ELSE DefaultDict,
                   tags |-> IF tags.given THEN tags.v ELSE <<>>])

\* (mutant) the ScoredSignal holds a copy of the Signal it is given
ScoredSignalCopies(signal, score, analysis, tags) ==
    IF \/ ~score.given
       \/ score.given /\ ~(FLe(Zero, score.v) /\ FLe(score.v, One))
       \/ signal.type # "Signal"
    THEN ValidationError
    ELSE Returned([type |-> "ScoredSignal",
                   signal |-> [f \in DOMAIN signal |->
                                  IF f = "id" THEN signal[f] + 1 ELSE signal[f]],
                   score |-> score.v,
                   analysis |-> IF analysis.given THEN analysis.v ELSE DefaultDict,
                   tags |-> IF tags.given THEN tags.v ELSE <<>>])

\* ScoredSignal(signal=..., score=..., analysis=..., tags=...):
\* score: float = Field(..., ge=0.0, le=1.0); a Signal instance given for
\* signal is kept as it is, not copied
ScoredSignal(signal, score, analysis, tags) ==
    IF \/ ~score.given
       \/ score.given /\ ~(FLe(Zero, score.v) /\ FLe(score.v, One))
       \/ signal.type # "Signal"
    THEN ValidationError
    ELSE Returned([type |-> "ScoredSignal", signal |-> signal,
                   score |-> score.v,
                   analysis |-> IF analysis.given THEN analysis.v ELSE DefaultDict,
                   tags |-> IF tags.given THEN tags.v ELSE <<>>])

\* =================================================================
\* KeywordScorerPlugin (src/reaper/plugins/keyword_scorer/__init__.py)
\* =================================================================
\* -------------------------------------------------------------- strings
\* A str whose characters matter is the sequence of its characters.
UpperCase == <<"A", "B", "C", "D", "E", "F", "G", "H", "I", "J", "K", "L", "M",
               "N", "O", "P", "Q", "R", "S", "T", "U", "V", "W", "X", "Y", "Z">>

LowerCase == <<"a", "b", "c", "d", "e", "f", "g", "h", "i", "j", "k", "l", "m",
               "n", "o", "p", "q", "r", "s", "t", "u", "v", "w", "x", "y", "z">>

\* (mutant) the text is matched as it is written
LowerKeepsCase(str) == str

\* str.lower()
Lower(str) ==
    [i \in DOMAIN str |->
        IF \E j \in DOMAIN UpperCase : UpperCase[j] = str[i]
        THEN LowerCase[CHOOSE j \in DOMAIN UpperCase : UpperCase[j] = str[i]]
        ELSE str[i]]

RECURSIVE Join(_, _)
\* sep.join(parts)
Join(parts, sep) ==
    IF parts = <<>> THEN <<>>
    ELSE IF Len(parts) = 1 THEN parts[1]
    ELSE parts[1] \o sep \o Join(Tail(parts), sep)

\* (mutant) kw is a whole word of text
ContainsWord(text, kw) ==
    \E i \in 0..(Len(text) - Len(kw)) :
        /\ SubSeq(text, i + 1, i + Len(kw)) = kw
        /\ (i = 0 \/ text[i] = " ")
        /\ (i + Len(kw) = Len(text) \/ text[i + Len(kw) + 1] = " ")

\* kw in text
Contains(text, kw) ==
    \E i \in 0..(Len(text) - Len(kw)) : SubSeq(text, i + 1, i + Len(kw)) = kw

RECURSIVE PyStr(_)
\* str(value) of a list or dict, repr(value) of what is inside one (the
\* strings of the model hold no quote and no backslash)
PyStr(value) ==
    CASE value.kind = "str"  -> <<"'">> \o value.v \o <<"'">>
      [] value.kind = "int"  -> value.v
      [] value.kind = "list" ->
            <<"[">> \o Join([i \in DOMAIN value.v |-> PyStr(value.v[i])], <<",", " ">>)
                    \o <<"]">>
      [] value.kind = "dict" ->
            <<"{">> \o Join([i \in DOMAIN value.v |->
                                <<"'">> \o value.v[i].key \o <<"'", ":", " ">>
                                        \o PyStr(value.v[i].value)],
                             <<",", " ">>)
                    \o <<"}">>
      [] OTHER -> <<"N", "o", "n", "e">>

\* ------------------------------------------------- the keyword lists
HIGH_PRIORITY_KEYWORDS == <<<<"u", "r", "g", "e", "n", "t">>, <<"c", "r", "i", "t", "i", "c", "a", "l">>, <<"b", "l", "o", "c", "k", "e", "r">>,
                            <<"e", "m", "e", "r", "g", "e", "n", "c", "y">>, <<"b", "r", "o", "k", "e", "n">>>>

MEDIUM_PRIORITY_KEYWORDS == <<<<"b", "u", "g">>, <<"i", "s", "s", "u", "e">>, <<"p", "r", "o", "b", "l", "e", "m">>,
                              <<"e", "r", "r", "o", "r">>, <<"f", "a", "i", "l", "u", "r", "e">>>>

LOW_PRIORITY_KEYWORDS == <<<<"t", "o", "d", "o">>, <<"i", "m", "p", "r", "o", "v", "e", "m", "e", "n", "t">>, <<"e", "n", "h", "a", "n", "c", "e", "m", "e", "n", "t">>,
                           <<"m", "i", "n", "o", "r">>, <<"q", "u", "e", "s", "t", "i", "o", "n">>>>

\* the float literals of the scorer, float.hex() in the comment
HighWeight == Float(FALSE, 80530636, 214748364)          \* 0.3  0x1.3333333333333p-2
MediumWeight == Float(FALSE, 53687091, 53687092)         \* 0.2  0x1.999999999999ap-3
LowWeight == Float(FALSE, 26843545, 161061274)           \* 0.1  0x1.999999999999ap-4
HighThreshold == Float(FALSE, 187904819, 53687088)       \* 0.7  0x1.6666666666666p-1
MediumThreshold == Float(FALSE, 107374182, 107374184)    \* 0.4  0x1.999999999999ap-2

\* the float a decimal literal of so many tenths denotes: 0.0, 0.1, ..., 1.0
Decimal(tenths) ==
    <<Zero, Float(FALSE, 26843545, 161061274), Float(FALSE, 53687091, 53687092),
      Float(FALSE, 80530636, 214748364), Float(FALSE, 107374182, 107374184),
      Float(FALSE, 134217728, 0), Float(FALSE, 161061273, 161061272),
      Float(FALSE, 187904819, 53687088), Float(FALSE, 214748364, 214748368),
      Float(FALSE, 241591910, 107374184), One>>[tenths + 1]

\* high_priority or self.HIGH_PRIORITY_KEYWORDS: None and [] are falsy
OrDefault(arg, default) == IF arg.given /\ arg.v # <<>> THEN arg.v ELSE default

\* KeywordScorerPlugin(high_priority, medium_priority, low_priority)
KeywordScorerPlugin(high_priority, medium_priority, low_priority) ==
    [high_priority |-> OrDefault(high_priority, HIGH_PRIORITY_KEYWORDS),
     medium_priority |-> OrDefault(medium_priority, MEDIUM_PRIORITY_KEYWORDS),
     low_priority |-> OrDefault(low_priority, LOW_PRIORITY_KEYWORDS)]

\* (mutant) only the str values of data are text
extract_text_of_strings(data) ==
    LET values == [i \in DOMAIN data.v |-> data.v[i].value]
        kept == SelectSeq(values, LAMBDA v : v.kind = "str")
    IN  Join([i \in DOMAIN kept |-> Lower(kept[i].v)], <<" ">>)

\* _extract_text_from_data(data): the str values lower-cased, the list and
\* dict values stringified and lower-cased, joined by a blank; other values
\* are left out
extract_text_from_data(data) ==
    LET values == [i \in DOMAIN data.v |-> data.v[i].value]
        kept == SelectSeq(values, LAMBDA v : v.kind \in {"str", "list", "dict"})
    IN  Join([i \in DOMAIN kept |->
                 IF kept[i].kind = "str" THEN Lower(kept[i].v)
                                         ELSE Lower(PyStr(kept[i]))],
             <<" ">>)

\* [kw for kw in keywords if kw.lower() in text]
Matches(keywords, text) ==
    SelectSeq(keywords, LAMBDA kw : Contains(text, Lower(kw)))

\* min(score, 1.0)
Cap(score) == IF FLt(One, score) THEN One ELSE score

\* _calculate_score(signal): (score, analysis)
calculate_score(self, signal) ==
    LET text == extract_text_from_data(signal.raw_data)
        high_matches == Matches(self.high_priority, text)
        medium_matches == Matches(self.medium_priority, text)
        low_matches == Matches(self.low_priority, text)
        score0 == Zero
        score1 == FAdd(score0, FMulInt(Len(high_matches), HighWeight))
        score2 == FAdd(score1, FMulInt(Len(medium_matches), MediumWeight))
        score3 == FAdd(score2, FMulInt(Len(low_matches), LowWeight))
    IN  [score |-> Cap(score3),
         analysis |-> [method |-> "keyword_matching",
                       high_priority_matches |-> high_matches,
                       medium_priority_matches |-> medium_matches,
                       low_priority_matches |-> low_matches,
                       total_matches |-> Len(high_matches) + Len(medium_matches)
                                            + Len(low_matches)]]

\* (mutant) the thresholds are exclusive
PriorityTagExclusive(score) ==
    IF FLt(HighThreshold, score) THEN "high_priority"
    ELSE IF FLt(MediumThreshold, score) THEN "medium_priority"
    ELSE "low_priority"

\* if score >= 0.7 ... elif score >= 0.4 ... else ...
PriorityTag(score) ==
    IF FLe(HighThreshold, score) THEN "high_priority"
    ELSE IF FLe(MediumThreshold, score) THEN "medium_priority"
    ELSE "low_priority"

\* (mutant) no_keywords is appended to every signal of low priority
NoKeywordsTagByScore(score, analysis) ==
    IF FLt(score, MediumThreshold) THEN <<"no_keywords">> ELSE <<>>

\* if analysis["total_matches"] == 0: tags.append("no_keywords")
NoKeywordsTag(score, analysis) ==
    IF analysis.total_matches = 0 THEN <<"no_keywords">> ELSE <<>>

\* reaper_score_signal after score, analysis = self._calculate_score(signal)
ScoredFrom(signal, calc) ==
    LET tags == <<PriorityTag(calc.score)>> \o NoKeywordsTag(calc.score, calc.analysis)
    IN  ScoredSignal(signal, Given(calc.score), Given(calc.analysis), Given(tags))

\* KeywordScorerPlugin.reaper_score_signal(signal)
reaper_score_signal(self, signal) == ScoredFrom(signal, calculate_score(self, signal))

\* ------------------------------------------------ the constructor calls
manager_vars == <<registered_plugins, name2plugin, hookimpls, last, snapshot>>

\* k/4, and the doubles next to it (2^-52 away) on either side
Quarter(k) == Float(FALSE, k * (Base \div 4), 0)

NextUp(a) == Float(FALSE, a.hi, a.lo + 16)

NextDown(a) == Float(FALSE, a.hi - 1, Base - 16)

Negative(a) == Float(TRUE, a.hi, a.lo)

ScoreInputs ==
    LET pos == {Quarter(k) : k \in 0..MaxQuarters}
                 \cup {NextUp(Quarter(k)) : k \in 0..MaxQuarters}
                 \cup {NextDown(Quarter(k)) : k \in 1..MaxQuarters}
                 \cup {Infinity}
    IN  {Missing} \cup {Given(a) : a \in pos} \cup {Given(Negative(a)) : a \in pos}

SenseInputs ==
    {Missing, Given([kind |-> "SenseType", v |-> "sight"]), Given(Str("smell")),
     Given(Str("sonar")), Given(None)}

SourceInputs == {Missing, Given(Str("cam1")), Given(Str("")), Given(None)}

TimestampInputs == {Missing, Given(Datetime(0))}

DictInputs ==
    {Missing, Given(Dict(<<>>)), Given(Dict(<<Pair("text", Str("hello"))>>)), Given(None)}

\* a Signal to score, and None in its place
SignalObjects ==
    {Signal(Given(Str("sight")), Given(Str("cam1")), Given(Datetime(0)),
            Missing, Missing, 0).value,
     [type |-> "None"]}

construct_Signal ==
    /\ \E sense_type \in SenseInputs, source \in SourceInputs,
          timestamp \in TimestampInputs, raw_data \in DictInputs,
          metadata \in DictInputs :
            built' = [op |-> "Signal", sense_type |-> sense_type, source |-> source,
                      timestamp |-> timestamp, raw_data |-> raw_data,
                      metadata |-> metadata,
                      out |-> Signal(sense_type, source, timestamp, raw_data,
                                     metadata, 1)]
    /\ UNCHANGED manager_vars

construct_ScoredSignal ==
    /\ \E signal \in SignalObjects, score \in ScoreInputs :
            built' = [op |-> "ScoredSignal", signal |-> signal, score |-> score,
                      out |-> ScoredSignal(signal, score, Missing, Missing)]
    /\ UNCHANGED manager_vars

Record(sense_type, source, raw_data, timestamp) ==
    [sense_type |-> sense_type, source |-> source, raw_data |-> raw_data,
     metadata |-> Missing, timestamp |-> timestamp]

\* the dicts given to create_batch: two that hold Signal data, one without
\* a source, one with a timestamp of its own
RecordInputs ==
    {Record(Given([kind |-> "SenseType", v |-> "sight"]), Given(Str("cam1")),
            Missing, Missing),
     Record(Given(Str("smell")), Given(Str("cam2")), Given(Dict(<<Pair("text", Str("hello"))>>)), Missing),
     Record(Given(Str("touch")), Missing, Missing, Missing),
     Record(Given(Str("taste")), Given(Str("cam3")), Missing, Given(Datetime(0)))}

BatchInputs == UNION {[1..n -> RecordInputs] : n \in 0..MaxBatch}

SharedTimestampInputs == {Missing, Given(None), Given(Datetime(0))}

\* datetime.now() returns a later time at every call
Clock == [i \in 1..(MaxBatch + 1) |-> i]

call_create_batch ==
    /\ \E signals_data \in BatchInputs, shared_timestamp \in SharedTimestampInputs :
            built' = [op |-> "create_batch", signals_data |-> signals_data,
                      shared_timestamp |-> shared_timestamp,
                      out |-> create_batch(signals_data, shared_timestamp, Clock)]
    /\ UNCHANGED manager_vars

NextModels ==
    \/ construct_Signal
    \/ construct_ScoredSignal
    \/ call_create_batch

SpecModels == Init /\ [][NextModels]_vars

\* -------------------------------------------- the calls of the scorer
\* the lists given for high_priority: none, an empty one, and lists of up
\* to MaxKeywords of two spellings of one keyword
HighListInputs ==
    {Missing, Given(<<>>)}
    \cup {Given(l) : l \in UNION {[1..n -> {<<"u", "r", "g", "e", "n", "t">>, <<"U", "R", "G", "E", "N", "T">>}] : n \in 1..MaxKeywords}}

MediumListInputs == {Missing, Given(<<<<"b", "u", "g">>, <<"B", "u", "g">>>>)}

LowListInputs == {Missing, Given(<<<<"m", "i", "n", "o", "r">>>>)}

\* values of raw_data: str values in either case, one with two keywords,
\* one with a keyword inside a longer word, a list, a number, a dict that
\* holds a list
ValuePool ==
    <<Str(<<"U", "R", "G", "E", "N", "T">>), Str(<<"c", "r", "i", "t", "i", "c", "a", "l", " ", "b", "l", "o", "c", "k", "e", "r">>),
      Str(<<"D", "e", "b", "u", "g">>), List(<<Str(<<"t", "o", "d", "o">>)>>), Str(<<"m", "i", "n", "o", "r">>),
      PyInt(<<"1", "2", "3">>),
      Dict(<<Pair(<<"t", "a", "g", "s">>, List(<<Str(<<"T", "O", "D", "O">>), PyInt(<<"7">>)>>)),
             Pair(<<"n", "o", "t", "e">>, Str(<<"q", "u", "e", "s", "t", "i", "o", "n">>))>>)>>

Digits == <<"1", "2", "3", "4", "5", "6", "7">>

\* a raw_data dict of the values chosen, in the order of the pool, under
\* the keys k1, k2, ...
RawData(chosen) ==
    LET picked == SelectSeq([i \in DOMAIN ValuePool |-> i], LAMBDA i : i \in chosen)
    IN  Dict([i \in DOMAIN picked |->
                 Pair(<<"k", Digits[picked[i]]>>, ValuePool[picked[i]])])

RawDataInputs ==
    {RawData(chosen) : chosen \in {c \in SUBSET DOMAIN ValuePool : Cardinality(c) <= MaxValues}}

\* the Signal object handed to the scorer: what the constructor returned,
\* and id(signal), which tells the object from an equal copy of it
SignalOf(raw_data) ==
    Signal(Given(Str("sight")), Given(Str("cam1")), Given(Datetime(0)),
           Given(raw_data), Missing, 0).value @@ [id |-> 1]

\* a plugin is constructed and is handed a signal
InitScorer ==
    /\ registered_plugins = <<>>
    /\ name2plugin = <<>>
    /\ hookimpls = [h \in Hooks |-> <<>>]
    /\ last = NoCall
    /\ snapshot = NoSnapshot
    /\ \E high_priority \in HighListInputs, medium_priority \in MediumListInputs,
          low_priority \in LowListInputs, raw_data \in RawDataInputs :
            built = [op |-> "KeywordScorerPlugin",
                     high_priority |-> high_priority,
                     medium_priority |-> medium_priority,
                     low_priority |-> low_priority,
                     self |-> KeywordScorerPlugin(high_priority, medium_priority,
                                                  low_priority),
                     signal |-> SignalOf(raw_data)]

call_reaper_score_signal ==
    /\ built.op = "KeywordScorerPlugin"
    /\ LET calc == calculate_score(built.self, built.signal)
       IN  built' = [built EXCEPT !.op = "reaper_score_signal"]
                       @@ [calc |-> calc, out |-> ScoredFrom(built.signal, calc)]
    /\ UNCHANGED manager_vars

\* pm.score_signal(signal) of a manager whose one scoring plugin is the
\* KeywordScorerPlugin: the hook call hands the plugin the caller's object
call_score_signal ==
    /\ built.op = "KeywordScorerPlugin"
    /\ LET calc == calculate_score(built.self, built.signal)
           out == ScoredFrom(built.signal, calc)
           results == IF out.raised THEN <<>>
                      ELSE <<[kind |-> "value", by |-> 0, items |-> <<out.value>>]>>
       IN  built' = [built EXCEPT !.op = "score_signal"]
                       @@ [calc |-> calc, out |-> out,
                           result |-> NotNoneAggregate(results)]
    /\ UNCHANGED manager_vars

NextScorer ==
    \/ call_reaper_score_signal
    \/ call_score_signal

SpecScorer == InitScorer /\ [][NextScorer]_vars

\* =================================================================
\* The monitor example (src/examples/multi_source_monitor.py)
\* =================================================================
\* main() after its seven register_plugin calls: each hook has one
\* implementer, a stub of src/pipeline.  A Signal is an object of a heap:
\* the lists of main() hold references (the places of the heap), so a
\* change made through one reference is seen through every other one.
PyBool(v) == [kind |-> "bool", v |-> v]

\* sources = [(sense, source, priority), ...]
MonitorSources ==
    <<<<"sight", "visual-feed-production", "high">>,
      <<"sight", "visual-feed-staging", "medium">>,
      <<"hearing", "slack-messages", "high">>,
      <<"hearing", "log-stream", "medium">>,
      <<"touch", "api-events", "high">>,
      <<"taste", "performance-metrics", "high">>,
      <<"smell", "anomaly-detector", "medium">>>>

StubName(sense) ==
    CASE sense = "sight"   -> "SightPlugin"
      [] sense = "hearing" -> "HearingPlugin"
      [] sense = "touch"   -> "TouchPlugin"
      [] sense = "taste"   -> "TastePlugin"
      [] sense = "smell"   -> "SmellPlugin"

StubDescription(sense) ==
    CASE sense = "sight"   -> "Stub visual signal detected"
      [] sense = "hearing" -> "Stub audio/textual signal detected"
      [] sense = "touch"   -> "Stub physical/interaction signal detected"
      [] sense = "taste"   -> "Stub quality/sampling signal detected"
      [] sense = "smell"   -> "Stub pattern/anomaly signal detected"

\* SightPlugin.reaper_sight_detect(source), ...: one stub Signal
stub_detect(sense, source, now) ==
    [kind |-> "value", by |-> 0,
     items |-> <<Signal(Given(Str(sense)), Given(Str(source)), Missing,
                        Given(Dict(<<Pair("description", Str(StubDescription(sense))),
                                     Pair("stub", PyBool(TRUE))>>)),
                        Given(Dict(<<Pair("plugin", Str(StubName(sense)))>>)),
                        now).value>>]

\* dict[key] = value
SetItem(dict, key, value) ==
    IF \E i \in DOMAIN dict.v : dict.v[i].key = key
    THEN Dict([i \in DOMAIN dict.v |->
                  IF dict.v[i].key = key THEN Pair(key, value) ELSE dict.v[i]])
    ELSE Dict(Append(dict.v, Pair(key, value)))

\* ScoringPlugin.reaper_score_signal(signal): score=0.5
stub_score(signal) ==
    ScoredSignal(signal, Given(Decimal(5)),
                 Given(Dict(<<Pair("description", Str("Stub scoring applied")),
                              Pair("stub", PyBool(TRUE))>>)),
                 Given(<<"stub">>))

InitMonitor ==
    /\ registered_plugins = <<>>
    /\ name2plugin = <<>>
    /\ hookimpls = [h \in Hooks |-> <<>>]
    /\ last = NoCall
    /\ snapshot = NoSnapshot
    /\ built = [op |-> "monitor", pc |-> "detect", i |-> 1, clock |-> 0,
                heap |-> <<>>, returned |-> <<>>, signals |-> <<>>,
                all_signals |-> <<>>, scored_signals |-> <<>>,
                high_priority |-> <<>>]

\* signals = pm.detect_<sense>(source=source); the clock the timestamp is
\* read from has moved on by tick
monitor_detect(tick) ==
    /\ built.op = "monitor" /\ built.pc = "detect"
    /\ built.clock + tick <= MaxClock
    /\ LET sense == MonitorSources[built.i][1]
           source == MonitorSources[built.i][2]
           now == built.clock + tick
           found == DetectAggregate(<<stub_detect(sense, source, now)>>)
           ids == [k \in 1..Len(found) |-> Len(built.heap) + k]
       IN  built' = [built EXCEPT !.pc = "tag", !.clock = now,
                                  !.heap = @ \o found,
                                  !.returned = @ \o found,
                                  !.signals = ids]
    /\ UNCHANGED manager_vars

\* for signal in signals: signal.raw_data["source_priority"] = priority
\* all_signals.extend(signals)
monitor_tag ==
    /\ built.op = "monitor" /\ built.pc = "tag"
    /\ LET priority == MonitorSources[built.i][3]
           tagged == Range(built.signals)
       IN  built' = [built EXCEPT
                        !.heap = [id \in DOMAIN built.heap |->
                                     IF id \in tagged
                                     THEN [built.heap[id] EXCEPT
                                              !.raw_data = SetItem(@, "source_priority",
                                                                   Str(priority))]
                                     ELSE built.heap[id]],
                        !.all_signals = @ \o built.signals,
                        !.i = IF built.i < Len(MonitorSources) THEN built.i + 1 ELSE 1,
                        !.pc = IF built.i < Len(MonitorSources) THEN "detect" ELSE "score"]
    /\ UNCHANGED manager_vars

\* scored = pm.score_signal(signal)[0]; scored_signals.append(scored)
monitor_score ==
    /\ built.op = "monitor" /\ built.pc = "score"
    /\ built.i <= Len(built.all_signals)
    /\ LET id == built.all_signals[built.i]
           results == <<[kind |-> "value", by |-> 0,
                         items |-> <<stub_score(built.heap[id] @@ [id |-> id]).value>>]>>
           scored == NotNoneAggregate(results)[1]
       IN  built' = [built EXCEPT !.scored_signals = Append(@, scored),
                                  !.i = built.i + 1]
    /\ UNCHANGED manager_vars

\* high_priority = [s for s in scored_signals if s.score >= 0.7]
monitor_group ==
    /\ built.op = "monitor" /\ built.pc = "score"
    /\ built.i > Len(built.all_signals)
    /\ built' = [built EXCEPT
                    !.pc = "done",
                    !.high_priority =
                        SelectSeq(built.scored_signals,
                                  LAMBDA sc : FLe(Decimal(7), sc.score))]
    /\ UNCHANGED manager_vars

NextMonitor ==
    \/ \E tick \in {0, 1} : monitor_detect(tick)
    \/ monitor_tag
    \/ monitor_score
    \/ monitor_group

SpecMonitor == InitMonitor /\ [][NextMonitor]_vars

\* =================================================================
\* Properties
\* =================================================================
CallOps == {"detect_sight", "detect_hearing", "detect_touch", "detect_taste",
            "detect_smell", "score_signal", "execute_action"}

IsCall == last.op \in CallOps

PluginsOf(entries) == [i \in 1..Len(entries) |-> entries[i].plugin]

Listed == Range(PluginsOf(registered_plugins))

ListedBefore == Range(PluginsOf(last.before))

Marked(p, h) == h \in HookimplMarked(ClassOf(p))

\* the listed plugins that carry the marking for h, in registration order
Implementers(h) == SelectSeq(PluginsOf(registered_plugins), LAMBDA p : Marked(p, h))

NoDuplicates(seq) == \A i, j \in DOMAIN seq : seq[i] = seq[j] => i = j

\* the place of a listed plugin in list_plugins()
RegIndex(p) == CHOOSE i \in DOMAIN registered_plugins : registered_plugins[i].plugin = p

\* what plugin p did in the latest call
RaisedIn(p) == \E r \in Range(last.returns) : r.by = p /\ r.kind = "raise"

ItemsFrom(p) ==
    IF \E r \in Range(last.returns) : r.by = p /\ r.kind = "value"
    THEN (CHOOSE r \in Range(last.returns) : r.by = p /\ r.kind = "value").items
    ELSE <<>>

\* the outcome of calling the plugins of `order` one after the other, each
\* behaving as it did in the latest call
FirstRaise(order) ==
    IF \E i \in DOMAIN order : RaisedIn(order[i])
    THEN CHOOSE i \in DOMAIN order :
            RaisedIn(order[i]) /\ \A j \in DOMAIN order : RaisedIn(order[j]) => i <= j
    ELSE 0

ExpectedInvoked(order) ==
    IF FirstRaise(order) = 0 THEN order ELSE SubSeq(order, 1, FirstRaise(order))

ExpectedResult(order) ==
    IF FirstRaise(order) # 0 THEN <<>>
    ELSE Chain([i \in 1..Len(order) |-> ItemsFrom(order[i])])

RemoveAt(seq, i) == SubSeq(seq, 1, i - 1) \o SubSeq(seq, i + 1, Len(seq))

\* -----------------------------------------------------------------
\* C1: register_plugin(p, name) with the object p already registered
\* raises to the caller and leaves list_plugins() and plugin_count() as
\* they were before the call.
C1_RegisterTwiceFails ==
    (last.op = "register_plugin" /\ last.plugin \in ListedBefore)
        => /\ last.raised
           /\ last.error = "ValueError"
           /\ list_plugins = last.before
           /\ plugin_count = Len(last.before)

\* the same object is registered a second time, under another name
C1_Witness ==
    /\ last.op = "register_plugin"
    /\ last.raised
    /\ \E i \in DOMAIN last.before :
          last.before[i].plugin = last.plugin /\ last.before[i].name # last.name

C4_UnregisterUnknownFails ==
    (last.op = "unregister_plugin" /\ last.plugin \notin ListedBefore)
        => /\ last.raised
           /\ last.error = "AssertionError"
           /\ list_plugins = last.before
           /\ plugin_count = Len(last.before)

\* an unknown plugin is unregistered while others are registered
C4_Witness ==
    /\ last.op = "unregister_plugin"
    /\ last.raised
    /\ last.plugin \notin ListedBefore
    /\ Len(last.before) >= 1
    /\ list_plugins = last.before

\* -----------------------------------------------------------------
\* the listed objects with an unmarked method named like hook h
UnmarkedListed(h) ==
    {p \in Listed : h \in UnmarkedMethods(ClassOf(p)) /\ ~Marked(p, h)}

WithoutUnmarked(h) ==
    SelectSeq(PluginsOf(registered_plugins), LAMBDA p : p \notin UnmarkedListed(h))

\* C5: a registered object that has a method named like the hook, without
\* the marking, is never invoked: no exception and no element of the
\* result comes from it, and the call ends exactly as a call over the
\* other registered plugins ends.
C5_UnmarkedNeverInvoked ==
    (IsCall /\ UnmarkedListed(last.hook) # {})
        => /\ \A u \in UnmarkedListed(last.hook) :
                 /\ u \notin Range(last.invoked)
                 /\ \A r \in Range(last.returns) : r.by # u
                 /\ \A x \in Range(last.result) : x.by # u
           /\ LET order == Reverse(SelectSeq(WithoutUnmarked(last.hook),
                                             LAMBDA p : Marked(p, last.hook)))
              IN  /\ last.invoked = ExpectedInvoked(order)
                  /\ last.raised = (FirstRaise(order) # 0)
                  /\ last.result = ExpectedResult(order)

\* detect_sight with an object registered whose reaper_sight_detect is not
\* marked, next to two plugins that implement the hook
C5_Witness ==
    /\ last.op = "detect_sight"
    /\ UnmarkedListed("reaper_sight_detect") # {}
    /\ ~last.raised
    /\ Len(last.invoked) = 2
    /\ Len(last.result) >= 1

\* -----------------------------------------------------------------
\* C6 (as claimed): a detect/score/act call for hook H invokes exactly the
\* plugins listed by list_plugins() that carry the marking for H, each
\* exactly once, and no others.
C6_InvokesExactlyListedMarked ==
    IsCall => /\ NoDuplicates(last.invoked)
              /\ Range(last.invoked) = Range(Implementers(last.hook))

\* C6 (amended): a call for hook H invokes only plugins listed by
\* list_plugins() that carry the marking for H, each at most once; when no
\* invoked plugin raises it invokes all of them exactly once; when one
\* raises, the call ends with it and the plugins after it are not invoked.
C6_InvokesOnlyListedMarked ==
    IsCall => /\ NoDuplicates(last.invoked)
              /\ Range(last.invoked) \subseteq Range(Implementers(last.hook))
              /\ ~last.raised => Range(last.invoked) = Range(Implementers(last.hook))
              /\ last.raised =>
                    /\ last.invoked # <<>>
                    /\ \A i \in DOMAIN last.invoked :
                          (last.returns[i].kind = "raise") <=> (i = Len(last.invoked))

\* a call that invokes the one listed implementer, while another listed
\* plugin implements only other hooks and a third plugin is not listed
C6_Witness ==
    /\ last.op = "detect_sight"
    /\ ~last.raised
    /\ Len(last.invoked) = 1
    /\ \E p \in Listed : ~Marked(p, "reaper_sight_detect")
    /\ \E p \in Plugins \ Listed : Marked(p, "reaper_sight_detect")

\* -----------------------------------------------------------------
\* C7: unregister_plugin(p) on a registered p removes exactly the one
\* entry whose plugin is p: the count drops by 1 and the other entries
\* keep their relative order.
C7_UnregisterRemovesOneEntry ==
    (last.op = "unregister_plugin" /\ last.plugin \in ListedBefore)
        => /\ ~last.raised
           /\ plugin_count = Len(last.before) - 1
           /\ Cardinality({i \in DOMAIN last.before :
                              last.before[i].plugin = last.plugin}) = 1
           /\ \E i \in DOMAIN last.before :
                 /\ last.before[i].plugin = last.plugin
                 /\ list_plugins = RemoveAt(last.before, i)

\* the first of three registered plugins is unregistered
C7_Witness ==
    /\ last.op = "unregister_plugin"
    /\ ~last.raised
    /\ Len(last.before) = 3
    /\ last.before[1].plugin = last.plugin
    /\ Len(list_plugins) = 2

\* a name other than None that one of the entries carries
NameInUse(entries, name) ==
    name # NoName /\ \E i \in DOMAIN entries : entries[i].name = name

SameClassListed(entries, p) ==
    \E i \in DOMAIN entries :
        entries[i].plugin # p /\ ClassOf(entries[i].plugin) = ClassOf(p)

\* C9: a plugin object of the class of a registered plugin can be
\* registered (under no name or a name not in use): both are listed, and
\* a score / act call gets one answer from each, and one result from each
\* that did not decline.
C9_SameClassInstancesRegister ==
    /\ (last.op = "register_plugin" /\ last.plugin \notin ListedBefore
          /\ ~NameInUse(last.before, last.name)
          /\ SameClassListed(last.before, last.plugin))
          => /\ ~last.raised
             /\ plugin_count = Len(last.before) + 1
             /\ ListedBefore \cup {last.plugin} = Listed
    /\ (last.op \in {"score_signal", "execute_action"} /\ ~last.raised)
          => \A p \in Listed :
                (Marked(p, last.hook) /\ SameClassListed(registered_plugins, p))
                   => /\ Cardinality({i \in DOMAIN last.returns :
                                         last.returns[i].by = p}) = 1
                      /\ Cardinality({i \in DOMAIN last.result :
                                         last.result[i].by = p})
                            = Len(ItemsFrom(p))

\* two instances of one class are registered and each gave its result
C9_Witness ==
    /\ last.op = "execute_action"
    /\ ~last.raised
    /\ \E i, j \in DOMAIN last.result :
          /\ last.result[i].by # last.result[j].by
          /\ ClassOf(last.result[i].by) = ClassOf(last.result[j].by)
          /\ {last.result[i].by, last.result[j].by} \subseteq Listed

\* -----------------------------------------------------------------
\* C10: when no registered plugin implements the hook, the detect_<sense>,
\* score_signal or execute_action call returns an empty sequence and does
\* not raise.
C10_NoImplementerGivesEmpty ==
    (IsCall /\ Implementers(last.hook) = <<>>)
        => /\ ~last.raised
           /\ last.result = <<>>
           /\ last.invoked = <<>>

\* plugins are registered, none of them implements the hook called
C10_Witness ==
    /\ IsCall
    /\ Listed # {}
    /\ Implementers(last.hook) = <<>>
    /\ last.result = <<>>

\* -----------------------------------------------------------------
\* the listed plugins that carry the marking for h and, in the latest
\* call, returned a result that is not None
Answered(h) ==
    {p \in Range(Implementers(h)) :
        \E r \in Range(last.returns) : r.by = p /\ r.kind = "value"}

\* C11: score_signal and execute_action return exactly one element for
\* each implementing plugin that returned a result and none for a plugin
\* that returned None: the length of the result is the number of
\* registered implementing plugins that did not decline.
C11_OneElementPerAnswer ==
    (last.op \in {"score_signal", "execute_action"} /\ ~last.raised)
        => /\ Len(last.result) = Cardinality(Answered(last.hook))
           /\ \A p \in Range(Implementers(last.hook)) :
                 Cardinality({i \in DOMAIN last.result : last.result[i].by = p})
                    = IF p \in Answered(last.hook) THEN 1 ELSE 0
           /\ \A i \in DOMAIN last.result :
                 last.result[i] = Made(last.result[i].by, last.hook, last.arg, 1)

\* one plugin scored and one declined: one element from two plugins
C11_Witness ==
    /\ last.op = "score_signal"
    /\ ~last.raised
    /\ Len(last.invoked) = 2
    /\ Len(last.result) = 1
    /\ \E r \in Range(last.returns) : r.kind = "None"

\* -----------------------------------------------------------------
\* C12: when an invoked plugin raises during a detect / score / act call,
\* the plugin's exception reaches the caller of the PluginManager method
\* and the call returns nothing: no partial aggregate of the results the
\* other plugins gave, no plugin called a second time, the registry as it
\* was.
C12_PluginExceptionPropagates ==
    (IsCall /\ \E r \in Range(last.returns) : r.kind = "raise")
        => /\ last.raised
           /\ last.error = "PluginError"
           /\ last.result = <<>>
           /\ NoDuplicates(last.invoked)
           /\ last.returns[Len(last.returns)].kind = "raise"
           /\ list_plugins = last.before

\* the plugin called first returned a result, the next one raised
C12_Witness ==
    /\ IsCall
    /\ last.raised
    /\ Len(last.returns) = 2
    /\ last.returns[1].kind = "value"
    /\ last.returns[1].items # <<>>
    /\ last.returns[2].kind = "raise"
    /\ last.result = <<>>

\* -----------------------------------------------------------------
\* C13: in every reachable state, after successful and failed
\* register_plugin / unregister_plugin calls, plugin_count() equals the
\* length of list_plugins().
C13_CountIsLengthOfList ==
    plugin_count = Len(list_plugins)

\* a failed unregister_plugin after registrations with and without a name
C13_Witness ==
    /\ last.op = "unregister_plugin"
    /\ last.raised
    /\ plugin_count = 2
    /\ \E i, j \in DOMAIN list_plugins :
          list_plugins[i].name = NoName /\ list_plugins[j].name # NoName

\* -----------------------------------------------------------------
\* C14: list_plugins() returns the registered (plugin, name) pairs in
\* registration order as a value that cannot be changed: an attempt to
\* change it raises and leaves the registry as it was, and a value
\* obtained earlier stays as it was through later register_plugin and
\* unregister_plugin calls.
C14_SnapshotIsReadOnly ==
    /\ snapshot.kind \in {"none", "tuple"}
    /\ ~snapshot.alias
    /\ last.op = "list_plugins"
          => /\ snapshot.items = last.before
             /\ list_plugins = last.before
    /\ last.op \in {"snapshot_setitem", "snapshot_append"}
          => /\ last.raised
             /\ list_plugins = last.before
             /\ plugin_count = Len(last.before)
             /\ snapshot = last.held
    /\ last.op \in {"register_plugin", "unregister_plugin"}
          => snapshot = last.held

\* a snapshot of two entries is held while one of the two plugins is
\* unregistered
C14_Witness ==
    /\ last.op = "unregister_plugin"
    /\ ~last.raised
    /\ snapshot.kind = "tuple"
    /\ Len(snapshot.items) = 2
    /\ snapshot.items = last.before
    /\ Len(list_plugins) = 1

\* -----------------------------------------------------------------
\* 0.0 <= x <= 1.0, read off the sign and the magnitude of x
ScoreInRange(x) ==
    /\ IsZero(x) \/ ~x.neg
    /\ x.hi < Base \/ (x.hi = Base /\ x.lo = 0)

\* C15: constructing a ScoredSignal (from a Signal) succeeds exactly when
\* the score lies in [0.0, 1.0], both ends included; a score below 0.0 or
\* above 1.0 is rejected with a validation error, and an accepted score is
\* stored as given, never moved into the range.
C15_ScoreRangeValidated ==
    (built.op = "ScoredSignal" /\ built.signal.type = "Signal" /\ built.score.given)
        => /\ ~built.out.raised <=> ScoreInRange(built.score.v)
           /\ built.out.raised => built.out.error = "ValidationError"
           /\ ~built.out.raised => built.out.value.score = built.score.v

\* the double next above 1.0 is rejected
C15_Witness ==
    /\ built.op = "ScoredSignal"
    /\ built.signal.type = "Signal"
    /\ built.score.given
    /\ built.score.v = Float(FALSE, Base, 16)
    /\ built.out.raised

\* -----------------------------------------------------------------
\* C16: constructing a Signal without a sense_type or without a source is
\* rejected; a Signal constructed without raw_data / metadata holds an
\* empty dict there, and no constructed Signal holds None there.
C16_SignalRequiresSenseAndSource ==
    built.op = "Signal"
        => /\ (~built.sense_type.given \/ ~built.source.given)
                 => (built.out.raised /\ built.out.error = "ValidationError")
           /\ ~built.out.raised
                 => /\ built.out.value.raw_data.kind = "dict"
                    /\ built.out.value.metadata.kind = "dict"
                    /\ ~built.raw_data.given => built.out.value.raw_data = Dict(<<>>)
                    /\ ~built.metadata.given => built.out.value.metadata = Dict(<<>>)

\* a Signal built from a sense and a source alone
C16_Witness ==
    /\ built.op = "Signal"
    /\ ~built.out.raised
    /\ ~built.raw_data.given
    /\ ~built.metadata.given
    /\ ~built.timestamp.given
    /\ built.out.value.raw_data = Dict(<<>>)

\* -----------------------------------------------------------------
\* a dict from which Signal(**data) builds a Signal, with no timestamp
HoldsSignalData(data) ==
    /\ ~data.timestamp.given
    /\ ~Signal(data.sense_type, data.source, Missing, data.raw_data,
               data.metadata, 0).raised

\* C17: Signal.create_batch(records, shared_timestamp), given records
\* that hold Signal data, returns one Signal per record, in record order,
\* all with one timestamp: shared_timestamp when one is given, otherwise
\* one reading of the clock, taken once for the batch.
C17_BatchSharesOneTimestamp ==
    (built.op = "create_batch"
       /\ \A i \in DOMAIN built.signals_data : HoldsSignalData(built.signals_data[i]))
        => /\ ~built.out.raised
           /\ Len(built.out.value) = Len(built.signals_data)
           /\ \A i \in DOMAIN built.signals_data :
                 /\ built.out.value[i].type = "Signal"
                 /\ built.out.value[i].source = built.signals_data[i].source.v.v
                 /\ built.out.value[i].sense_type = built.signals_data[i].sense_type.v.v
           /\ \A i, j \in DOMAIN built.out.value :
                 built.out.value[i].timestamp = built.out.value[j].timestamp
           /\ \A i \in DOMAIN built.out.value :
                 built.out.value[i].timestamp =
                    IF built.shared_timestamp.given
                       /\ built.shared_timestamp.v # None
                    THEN built.shared_timestamp.v
                    ELSE Datetime(Clock[1])
           /\ built.out.reads =
                 IF built.shared_timestamp.given /\ built.shared_timestamp.v # None
                 THEN 0 ELSE 1

\* a batch of as many records as the bound allows, no timestamp given
C17_Witness ==
    /\ built.op = "create_batch"
    /\ ~built.out.raised
    /\ ~built.shared_timestamp.given
    /\ Len(built.signals_data) = MaxBatch
    /\ built.signals_data[1] # built.signals_data[2]
    /\ built.out.value[1].timestamp = built.out.value[MaxBatch].timestamp
    /\ built.out.reads = 1


\* the scorer has been called on its signal
Scored == built.op = "reaper_score_signal"

\* how many distinct keywords of a list occur in the extracted text
DistinctFound(keywords) ==
    Cardinality({kw \in Range(keywords) :
                    Contains(extract_text_from_data(built.signal.raw_data), Lower(kw))})

\* the weighted sum of the claim, in tenths
WeightedTenths(H, M, L) == 3 * H + 2 * M + L

CappedTenths(H, M, L) ==
    IF WeightedTenths(H, M, L) >= 10 THEN 10 ELSE WeightedTenths(H, M, L)

\* C18: the score equals min(1.0, 0.3*H + 0.2*M + 0.1*L), H, M and L being
\* the numbers of distinct high, medium and low keywords that occur in the
\* extracted text.
C18_ScoreIsCappedWeightedSum ==
    Scored =>
        built.calc.score =
            Decimal(CappedTenths(DistinctFound(built.self.high_priority),
                                 DistinctFound(built.self.medium_priority),
                                 DistinctFound(built.self.low_priority)))

\* the weighted sum of the matches the scorer itself reports
ReportedTenths ==
    WeightedTenths(Len(built.calc.analysis.high_priority_matches),
                   Len(built.calc.analysis.medium_priority_matches),
                   Len(built.calc.analysis.low_priority_matches))

\* C19: the score lies in [0.0, 1.0], is exactly 1.0 once the weighted sum
\* reaches or exceeds 1.0, and reaper_score_signal never fails the range
\* validation of ScoredSignal.
C19_ScoreSaturates ==
    Scored =>
        /\ FLe(Zero, built.calc.score) /\ FLe(built.calc.score, One)
        /\ ReportedTenths >= 10 => built.calc.score = One
        /\ ~built.out.raised

PriorityTags == {"high_priority", "medium_priority", "low_priority"}

\* C20: every ScoredSignal of the scorer carries exactly one priority tag,
\* it is the first tag, and it is high_priority when score >= 0.7,
\* medium_priority when 0.4 <= score < 0.7, low_priority when score < 0.4.
C20_OnePriorityTagByScore ==
    (Scored /\ ~built.out.raised) =>
        LET tags == built.out.value.tags
            score == built.out.value.score
        IN  /\ Cardinality({i \in DOMAIN tags : tags[i] \in PriorityTags}) = 1
            /\ tags # <<>> /\ tags[1] \in PriorityTags
            /\ tags[1] = "high_priority" <=> FLe(Decimal(7), score)
            /\ tags[1] = "medium_priority" <=>
                   (FLe(Decimal(4), score) /\ FLt(score, Decimal(7)))
            /\ tags[1] = "low_priority" <=> FLt(score, Decimal(4))

\* the three cases happen, two of them with the score on a threshold
C20_Witness ==
    /\ Scored /\ ~built.out.raised
    /\ built.out.value.score = Decimal(7)
    /\ built.out.value.tags = <<"high_priority">>

\* the tags of the ScoredSignal the scorer returned
HasTag(tag) == tag \in Range(built.out.value.tags)

\* C21: the ScoredSignal carries no_keywords exactly when no keyword
\* matched; it then has score 0.0 and carries low_priority; and
\* analysis.total_matches is the sum of the lengths of the three match lists.
C21_NoKeywordsIffNoMatch ==
    (Scored /\ ~built.out.raised) =>
        LET analysis == built.out.value.analysis
            found == Len(analysis.high_priority_matches)
                        + Len(analysis.medium_priority_matches)
                        + Len(analysis.low_priority_matches)
        IN  /\ HasTag("no_keywords") <=> found = 0
            /\ HasTag("no_keywords") =>
                  (built.out.value.score = Zero /\ HasTag("low_priority"))
            /\ analysis.total_matches = found

\* both cases: a signal without any keyword, and one of low priority that
\* has a match and so carries no no_keywords tag
C21_Witness ==
    /\ Scored /\ ~built.out.raised
    /\ built.out.value.tags = <<"low_priority", "no_keywords">>
    /\ built.out.value.analysis.total_matches = 0
    /\ built.signal.raw_data.v # <<>>

\* ways of changing the letter case of a str: all capitals, or capitals at
\* the odd places and small letters at the even ones
CaseModes == {"upper", "mixed"}

UpperChar(c) ==
    IF \E j \in DOMAIN LowerCase : LowerCase[j] = c
    THEN UpperCase[CHOOSE j \in DOMAIN LowerCase : LowerCase[j] = c]
    ELSE c

LowerChar(c) ==
    IF \E j \in DOMAIN UpperCase : UpperCase[j] = c
    THEN LowerCase[CHOOSE j \in DOMAIN UpperCase : UpperCase[j] = c]
    ELSE c

Recase(mode, str) ==
    [i \in DOMAIN str |->
        IF mode = "upper" \/ (mode = "mixed" /\ i % 2 = 1) THEN UpperChar(str[i])
                                                            ELSE LowerChar(str[i])]

RECURSIVE RecaseValue(_, _)
\* a value of raw_data with the case of its text changed
RecaseValue(mode, value) ==
    CASE value.kind = "str"  -> Str(Recase(mode, value.v))
      [] value.kind = "list" ->
            List([i \in DOMAIN value.v |-> RecaseValue(mode, value.v[i])])
      [] value.kind = "dict" ->
            Dict([i \in DOMAIN value.v |->
                    Pair(value.v[i].key, RecaseValue(mode, value.v[i].value))])
      [] OTHER -> value

RecaseSignal(mode, signal) ==
    [signal EXCEPT !.raw_data = RecaseValue(mode, @)]

RecaseKeywords(mode, keywords) ==
    [i \in DOMAIN keywords |-> Recase(mode, keywords[i])]

RecasePlugin(mode, self) ==
    [high_priority |-> RecaseKeywords(mode, self.high_priority),
     medium_priority |-> RecaseKeywords(mode, self.medium_priority),
     low_priority |-> RecaseKeywords(mode, self.low_priority)]

\* the score, the three match lists and the tags of a ScoredSignal
Outcome(scored) ==
    [score |-> scored.value.score,
     high |-> scored.value.analysis.high_priority_matches,
     medium |-> scored.value.analysis.medium_priority_matches,
     low |-> scored.value.analysis.low_priority_matches,
     tags |-> scored.value.tags]

\* the same outcome with the matched keywords in another letter case
RecaseOutcome(mode, outcome) ==
    [outcome EXCEPT !.high = RecaseKeywords(mode, @),
                    !.medium = RecaseKeywords(mode, @),
                    !.low = RecaseKeywords(mode, @)]

\* C22 (as stated): changing the letter case of the text in raw_data, or of
\* the configured keywords, never changes the score, the matched keyword
\* lists or the tags.
C22_CaseNeverChangesOutcome ==
    Scored =>
        \A mode \in CaseModes :
            /\ Outcome(reaper_score_signal(built.self, RecaseSignal(mode, built.signal)))
                  = Outcome(built.out)
            /\ Outcome(reaper_score_signal(RecasePlugin(mode, built.self), built.signal))
                  = Outcome(built.out)

\* C22 (amended): changing the letter case of the text in raw_data never
\* changes the score, the matched keyword lists or the tags; changing the
\* letter case of the configured keywords never changes the score or the
\* tags, and the match lists hold the same keywords in the letter case they
\* are now configured in.
C22_CaseInsensitiveScoring ==
    Scored =>
        \A mode \in CaseModes :
            /\ Outcome(reaper_score_signal(built.self, RecaseSignal(mode, built.signal)))
                  = Outcome(built.out)
            /\ Outcome(reaper_score_signal(RecasePlugin(mode, built.self), built.signal))
                  = RecaseOutcome(mode, Outcome(built.out))

\* a text in capitals matched by a keyword in small letters, and a keyword
\* configured in capitals that matched
C22_Witness ==
    /\ Scored
    /\ \E i \in DOMAIN built.signal.raw_data.v :
          built.signal.raw_data.v[i].value = Str(<<"U", "R", "G", "E", "N", "T">>)
    /\ built.out.value.analysis.high_priority_matches
          = <<<<"u", "r", "g", "e", "n", "t">>, <<"U", "R", "G", "E", "N", "T">>>>
    /\ built.out.value.score = Decimal(6)

\* the list the claim expects for a level: the one supplied, the default
\* one when none was supplied
SuppliedOr(arg, default) == IF arg.given THEN arg.v ELSE default

\* C23: each of the three lists the plugin matches against is exactly the
\* list supplied for it at construction; the default list is used for a
\* level only when no list was supplied for that level.
C23_ListsAreThoseSupplied ==
    Scored =>
        /\ built.self.high_priority
              = SuppliedOr(built.high_priority, HIGH_PRIORITY_KEYWORDS)
        /\ built.self.medium_priority
              = SuppliedOr(built.medium_priority, MEDIUM_PRIORITY_KEYWORDS)
        /\ built.self.low_priority
              = SuppliedOr(built.low_priority, LOW_PRIORITY_KEYWORDS)
        /\ built.calc.analysis.high_priority_matches
              = Matches(SuppliedOr(built.high_priority, HIGH_PRIORITY_KEYWORDS),
                        extract_text_from_data(built.signal.raw_data))

RECURSIVE Leaves(_)
\* the strings held anywhere in a value: the value itself, the elements of
\* a list, the values of a mapping, at any depth
Leaves(value) ==
    CASE value.kind = "str"  -> {value.v}
      [] value.kind = "list" -> UNION {Leaves(value.v[i]) : i \in DOMAIN value.v}
      [] value.kind = "dict" -> UNION {Leaves(value.v[i].value) : i \in DOMAIN value.v}
      [] OTHER -> {}

\* the strings nested in a list or mapping value of raw_data
NestedLeaves(raw_data) ==
    UNION {Leaves(raw_data.v[i].value) :
              i \in {j \in DOMAIN raw_data.v : raw_data.v[j].value.kind # "str"}}

\* kw is one of the matches reported for its list
Matched(kw, list) ==
    \E i \in DOMAIN list : list[i] = kw

\* C24: a keyword that appears in a string value of raw_data, or in a string
\* anywhere inside a list or mapping value of raw_data, is matched.
C24_NestedTextIsMatched ==
    Scored =>
        \A leaf \in Leaves(built.signal.raw_data) :
            /\ \A kw \in Range(built.self.high_priority) :
                  Contains(Recase("lower", leaf), Recase("lower", kw))
                     => Matched(kw, built.calc.analysis.high_priority_matches)
            /\ \A kw \in Range(built.self.medium_priority) :
                  Contains(Recase("lower", leaf), Recase("lower", kw))
                     => Matched(kw, built.calc.analysis.medium_priority_matches)
            /\ \A kw \in Range(built.self.low_priority) :
                  Contains(Recase("lower", leaf), Recase("lower", kw))
                     => Matched(kw, built.calc.analysis.low_priority_matches)

\* keywords matched in a list inside a mapping and in a string of that
\* mapping, with no string value at the top level
C24_Witness ==
    /\ Scored
    /\ \A i \in DOMAIN built.signal.raw_data.v :
          built.signal.raw_data.v[i].value.kind = "dict"
    /\ built.calc.analysis.low_priority_matches
          = <<<<"t", "o", "d", "o">>, <<"q", "u", "e", "s", "t", "i", "o", "n">>>>
    /\ \E leaf \in NestedLeaves(built.signal.raw_data) : leaf = <<"T", "O", "D", "O">>

\* kw, in small letters, is written in text from place i + 1 on
OccursAt(text, kw, i) ==
    /\ i + Len(kw) <= Len(text)
    /\ \A j \in DOMAIN kw : text[i + j] = LowerChar(kw[j])

Occurs(text, kw) == \E i \in 0..Len(text) : OccursAt(text, kw, i)

\* C25: a configured keyword is matched if and only if it occurs as a
\* contiguous substring of the extracted text, inside a longer word or not.
C25_MatchIsSubstring ==
    Scored =>
        LET text == extract_text_from_data(built.signal.raw_data)
        IN  /\ \A kw \in Range(built.self.high_priority) :
                  Matched(kw, built.calc.analysis.high_priority_matches)
                     <=> Occurs(text, kw)
            /\ \A kw \in Range(built.self.medium_priority) :
                  Matched(kw, built.calc.analysis.medium_priority_matches)
                     <=> Occurs(text, kw)
            /\ \A kw \in Range(built.self.low_priority) :
                  Matched(kw, built.calc.analysis.low_priority_matches)
                     <=> Occurs(text, kw)
            /\ Range(built.calc.analysis.high_priority_matches)
                  \subseteq Range(built.self.high_priority)
            /\ Range(built.calc.analysis.medium_priority_matches)
                  \subseteq Range(built.self.medium_priority)
            /\ Range(built.calc.analysis.low_priority_matches)
                  \subseteq Range(built.self.low_priority)

\* "bug" is matched inside the word "debug", and nothing else is matched
C25_Witness ==
    /\ Scored
    /\ extract_text_from_data(built.signal.raw_data) = <<"d", "e", "b", "u", "g">>
    /\ built.calc.analysis.medium_priority_matches = <<<<"b", "u", "g">>>>
    /\ built.calc.analysis.total_matches = 1

\* C26: the ScoredSignal returned by reaper_score_signal(signal), and by
\* score_signal(signal) of the manager, references the very Signal passed
\* in, and the attributes of that Signal are the same after the call as
\* before it.
C26_ScoringLeavesSignalAlone ==
    [][built.op = "KeywordScorerPlugin" =>
          /\ built'.signal = built.signal
          /\ ~built'.out.raised
          /\ built'.out.value.signal = built.signal
          /\ built'.op = "score_signal" =>
                /\ Len(built'.result) = 1
                /\ built'.result[1].signal = built.signal]_vars

\* the manager returned one ScoredSignal for a signal that has text in a
\* nested value, and it holds the object passed in
C26_Witness ==
    /\ built.op = "score_signal"
    /\ Len(built.result) = 1
    /\ built.result[1].signal.id = built.signal.id
    /\ built.result[1].signal.raw_data = built.signal.raw_data
    /\ NestedLeaves(built.signal.raw_data) # {}
    /\ built.result[1].score = Decimal(1)

\* C27: once a Signal has been returned by a detect call, none of its
\* attributes is changed by any later step of the pipeline or of the code
\* that drives it.
C27_SignalsNeverMutated ==
    built.op = "monitor" =>
        \A id \in DOMAIN built.heap : built.heap[id] = built.returned[id]

\* C28: a detect_<sense>, score_signal or execute_action call, whether it
\* returns or a plugin raises, leaves list_plugins() and plugin_count() as
\* they were, and leaves every hook its implementers in the same call order.
C28_CallsLeaveRegistryAlone ==
    [][last'.op \in CallOps =>
          /\ list_plugins' = list_plugins
          /\ plugin_count' = plugin_count
          /\ \A h \in Hooks : CallOrder(hookimpls'[h]) = CallOrder(hookimpls[h])]_vars

\* a call in which the second of two implementers raised, with both still
\* registered after it
C28_Witness ==
    /\ IsCall
    /\ last.raised
    /\ Len(last.invoked) = 2
    /\ list_plugins = last.before
    /\ plugin_count >= 2
    /\ \A i \in DOMAIN last.invoked : IsRegistered(last.invoked[i])

\* C29: in every reachable state no plugin object is in more than one entry
\* of list_plugins(), and plugin_count() is the number of successful
\* register_plugin calls minus the number of successful unregister_plugin
\* calls.
C29_CountIsRegistersMinusUnregisters ==
    built.op = "count" =>
        /\ \A i, j \in DOMAIN list_plugins :
              list_plugins[i].plugin = list_plugins[j].plugin => i = j
        /\ plugin_count = built.registered - built.unregistered

\* five calls made: three registrations and one unregistration succeeded,
\* one call failed
C29_Witness ==
    /\ built.op = "count"
    /\ built.registered = 3
    /\ built.unregistered = 1
    /\ built.calls = 5
    /\ plugin_count = 2

\* every implementer of a hook returns a value
AllReturn(h) == [p \in Range(hookimpls[h]) |-> [kind |-> "value", n |-> 1]]

\* how often a plugin is invoked by a call of hook h
TimesInvoked(plugin, h) ==
    LET invoked == Multicall(h, "arg", AllReturn(h)).invoked
    IN  Cardinality({i \in DOMAIN invoked : invoked[i] = plugin})

\* C30: a plugin that was registered and then unregistered can be registered
\* again (under no name or a name that is not in use): the call succeeds,
\* the plugin takes the last position in list_plugins(), and a call of a
\* hook it implements invokes it again.
C30_RegisterAgainAfterUnregister ==
    (/\ built.op = "count"
     /\ last.op = "register_plugin"
     /\ last.plugin \in built.gone
     /\ last.plugin \notin ListedBefore
     /\ ~NameInUse(last.before, last.name))
        => /\ ~last.raised
           /\ list_plugins = Append(last.before,
                                    [plugin |-> last.plugin, name |-> last.name])
           /\ \A h \in Hooks :
                 TimesInvoked(last.plugin, h) = IF IsHookImpl(last.plugin, h) THEN 1 ELSE 0

\* a plugin is registered again, under a name, behind a plugin that was
\* never unregistered
C30_Witness ==
    /\ built.op = "count"
    /\ last.op = "register_plugin"
    /\ ~last.raised
    /\ last.plugin \in built.gone
    /\ last.name = "n1"
    /\ Len(list_plugins) = 2
    /\ list_plugins[2].plugin = last.plugin
    /\ list_plugins[1].plugin \notin built.gone
    /\ built.calls = 4
    /\ TimesInvoked(last.plugin, "reaper_score_signal") = 1

====
